---- MODULE Spec2Model ----
(***************************************************************************)
(* KidPulse: event extraction, partition by date, merge into the per-date  *)
(* store, and the scrape lock that serialises scrape cycles.               *)
(***************************************************************************)
EXTENDS Integers, Sequences, FiniteSets, TLC

\* ---------------------------------------------------------------- bounds
MaxDate == 2
MaxTime == 2
MaxEvents == 2
MaxScrapes == 2

\* ------------------------------------------------------------ data model
\* Optional[...] = None, and JSON null
None == <<>>

\* calendar dates; the last one is the scrape's reference date ("today")
Dates == 1..MaxDate
RefDate == MaxDate
\* clock times of a day
Times == 1..MaxTime
\* a datetime: <<calendar date, clock time>>
DateTimes == Dates \X Times

\* child display names (the tabs of the feed page, in tab order)
ChildOrder == <<"Ezra Doe", "Killian Doe">>
Children == {ChildOrder[i] : i \in 1..Len(ChildOrder)}

\* the five list-valued fields of a ChildSummary
ListFields == {"bottles", "fluids", "diapers", "naps", "meals"}

\* ChildSummary(name=child_name)
ChildSummary(child_name) ==
  [name |-> child_name,
   sign_in |-> None, sign_out |-> None,
   sign_in_events |-> <<>>, sign_out_events |-> <<>>,
   diapers |-> <<>>, bottles |-> <<>>, fluids |-> <<>>,
   naps |-> <<>>, meals |-> <<>>]

\* DiaperEvent, BottleEvent, FluidsEvent, EatingEvent: keyed by .time; info is
\* what else the record says (diaper_type, ounces_consumed, ounces, meal_items):
\* 0 for the default the parser falls back on ("Unknown", 0.0), else 1
TimedEvent(t, v) == [time |-> t, info |-> v]
\* NappingEvent: keyed by .start_time, end_time optional
NappingEvent(s, e) == [start_time |-> s, end_time |-> e]

\* the timestamp a record is partitioned and deduplicated by
EventTime(field, ev) == IF field = "naps" THEN ev.start_time ELSE ev.time

\* datetime.date().isoformat(): the calendar date component, the store key
DateStr(t) == t[1]

\* datetime.isoformat() / datetime.fromisoformat()
IsoFormat(t) == <<t[1], "T", t[2]>>
FromIsoFormat(s) == <<s[1], s[3]>>

\* f with key k bound to v (dict assignment)
DictPut(f, k, v) == (k :> v) @@ f

\* ------------------------------------------------- pattern cascade (regex)
\* the scrape's reference datetime `date`: today, at the instant of the scrape
ReferenceDate == <<RefDate, 0>>

\* child.name.split()[0].lower() looked up in child_classrooms
ExpectedClassrooms(child_name) ==
  IF child_name = "Ezra Doe" THEN {"Infant C"}
  ELSE IF child_name = "Killian Doe" THEN {"Older P"} ELSE {}
KnownClassrooms == {"Infant", "Older", "Toddler", "Pre-K", "Preschool"}

\* the classroom strings each recorder label of the feed contains
ContainedIn(recorder) ==
  IF recorder = "Infant C" THEN {"Infant C", "Infant"}
  ELSE IF recorder = "Older P" THEN {"Older P", "Older"}
  ELSE IF recorder = "Toddler B" THEN {"Toddler"} ELSE {}

\* A feed item, by what the parser's patterns find in its text:
\*   names     the names after "Sign In/Out ... ·" (name_patterns)
\*   recorder  the "Recorded by" actor, "" when absent
\*   sign_out  the parsed timestamp of the sign-out card pattern, None when no match
\*   sign_in   the parsed timestamp of the sign-in card pattern, None when no match
\*   words     which of the keywords occur in text_lower
\*   ts        _extract_timestamp(text, date)
\*   nap       _parse_napping(text, date), None when neither nap shape matches
\*   info      what the field parser of the kind finds (type, ounces, meal items),
\*             0 when it finds nothing and falls back on its default
Keywords == {"diaper", "bottle", "fluids", "nap", "eating"}
FeedItem(names, recorder, so, si, words, ts, nap, v) ==
  [names |-> names, recorder |-> recorder, sign_out |-> so, sign_in |-> si,
   words |-> words, ts |-> ts, nap |-> nap, info |-> v]

\* ------------------------------------------------- the text of a bottle
\* ounces a pattern may capture
MaxOunces == 2
Ounces == 0..MaxOunces

\* The text of a bottle segment, by what the three patterns capture, each
\* <<number>> or None when the pattern does not match:
\*   offered   "(ounces offered|offered)" followed by a number
\*   consumed  "(ounces consumed|consumed)" followed by a number
\*   oz        a number followed by "oz" or "ounces"
BottleText(offered, consumed, oz) ==
  [offered |-> offered, consumed |-> consumed, oz |-> oz]

\* _parse_bottle(text, timestamp): ounces_offered and ounces_consumed
ParseBottle(text) ==
  LET ounces_offered == IF text.offered # None THEN text.offered[1] ELSE 0
      ounces_consumed == IF text.consumed # None THEN text.consumed[1] ELSE 0
  IN IF ounces_offered = 0 /\ ounces_consumed = 0 /\ text.oz # None
     THEN [ounces_offered |-> text.oz[1], ounces_consumed |-> text.oz[1]]
     ELSE [ounces_offered |-> ounces_offered, ounces_consumed |-> ounces_consumed]

\* ------------------------------------------------- the text of a card
\* "Nov 2, 2026 5:30 PM" is <<date, hour, minute, "PM">>, a bare "5:30 PM"
\* is <<hour, minute, "PM">>; a clock time is counted in minutes, as
\* datetime(year, month, day, hour, minute) keeps it. A resolver ends in
\* <<"ok", value>>, <<"none">> (it returns None) or <<"raises">>.
IsFull(stamp) == stamp # None /\ Len(stamp) = 4
IsBare(stamp) == stamp # None /\ Len(stamp) = 3

\* datetime(year, month, day, hour, minute, 0) and date.replace(hour=,
\* minute=): ValueError when hour or minute is out of range
MakeDateTime(d, hour, minute) ==
  IF hour \in 0..23 /\ minute \in 0..59
  THEN <<"ok", <<d, hour * 60 + minute>>>> ELSE <<"raises">>

Hour24Plain(h, ap) == h

\* a conversion that adds 12 to every PM hour
Hour24NoonWraps(h, ap) ==
  IF ap = "PM" THEN h + 12
  ELSE IF ap = "AM" /\ h = 12 THEN 0 ELSE h

\* "if ampm == PM and hour != 12: hour += 12 / elif ampm == AM and hour == 12"
Hour24(h, ap) ==
  IF ap = "PM" /\ h # 12 THEN h + 12
  ELSE IF ap = "AM" /\ h = 12 THEN 0 ELSE h

\* _parse_timestamp_string(ts_str): None when the pattern does not match
\* or "except Exception" catches the ValueError of datetime(...)
ParseTimestampString(stamp) ==
  IF IsFull(stamp)
  THEN LET r == MakeDateTime(stamp[1], Hour24(stamp[2], stamp[4]), stamp[3])
       IN IF r[1] = "ok" THEN r ELSE <<"none">>
  ELSE <<"none">>

\* _extract_timestamp(text, date): the first full timestamp, else the first
\* bare clock time on the day of `date`, else `date` itself
ExtractTimestamp(text, date) ==
  IF IsFull(text.stamp)
  THEN MakeDateTime(text.stamp[1], Hour24(text.stamp[2], text.stamp[4]), text.stamp[3])
  ELSE IF IsBare(text.stamp)
  THEN MakeDateTime(date[1], Hour24(text.stamp[1], text.stamp[3]), text.stamp[2])
  ELSE <<"ok", date>>

\* AIParser._parse_time on "5:30 PM": strptime with %I:%M %p, which takes
\* the hours 1..12, then the pattern and the conversion by hand
ParseTimeOfClock(clock, date) ==
  IF clock[1] \in 1..12 /\ clock[2] \in 0..59
  THEN <<"ok", <<date[1],
                 ((clock[1] % 12) + (IF clock[3] = "PM" THEN 12 ELSE 0)) * 60
                 + clock[2]>>>>
  ELSE MakeDateTime(date[1], Hour24(clock[1], clock[3]), clock[2])

\* The text of a nap segment: window is <<start stamp, end clock>> of "From
\* <stamp> until <clock>" or None, stamp the "Occurred at" timestamp or None.
NapText(window, stamp) == [window |-> window, stamp |-> stamp]

\* _parse_napping(text, date)
ParseNapping(text, date) ==
  IF text.window # None
  THEN LET from == text.window[1]
           until == text.window[2]
           start_time == MakeDateTime(from[1], Hour24(from[2], from[4]), from[3])
           end_time == MakeDateTime(from[1], Hour24(until[1], until[3]), until[2])
       IN IF start_time[1] = "ok" /\ end_time[1] = "ok"
          THEN <<"ok", NappingEvent(start_time[2], end_time[2])>>
          ELSE <<"raises">>
  ELSE IF IsFull(text.stamp)
  THEN LET start_time == MakeDateTime(text.stamp[1],
                                      Hour24(text.stamp[2], text.stamp[4]),
                                      text.stamp[3])
       IN IF start_time[1] = "ok"
          THEN <<"ok", NappingEvent(start_time[2], None)>>
          ELSE <<"raises">>
  ELSE <<"none">>

\* The text of a segment, by its lines:
\*   header    "Sign Out", "Sign In" (each with its "·") or ""
\*   subject   the name after the "·", "" when there is none
\*   recorder  the actor of the "Recorded by" line, "" when there is none
\*   stamp     the timestamp of the "Occurred at" line, None when there is none
\*   words     the keywords in the rest of the text
CardText(header, subject, recorder, stamp, words) ==
  [header |-> header, subject |-> subject, recorder |-> recorder,
   stamp |-> stamp, words |-> words]

\* sign_out_match / sign_in_match: the header with its "·", then "Recorded
\* by", then "Occurred at" and a full timestamp
SignMatch(text, header) ==
  IF text.header = header /\ text.recorder # "" /\ IsFull(text.stamp)
     /\ ParseTimestampString(text.stamp)[1] = "ok"
  THEN ParseTimestampString(text.stamp)[2] ELSE None

\* what the patterns of _parse_feed_item find in a text
Segment(text, date) ==
  FeedItem(IF text.header # "" /\ text.subject # "" THEN {text.subject} ELSE {},
           text.recorder,
           SignMatch(text, "Sign Out"), SignMatch(text, "Sign In"),
           text.words, ExtractTimestamp(text, date)[2], None, 1)

\* a parser without the name filter
OtherChildNamedNever(cs, item) == FALSE

\* "Skip events that explicitly mention a DIFFERENT child's name"
OtherChildNamed(cs, item) == \E n \in item.names : n # cs.name

\* "Filter by classroom based on Recorded by text"
OtherClassroom(cs, item) ==
  /\ item.recorder # ""
  /\ ExpectedClassrooms(cs.name) # {}
  /\ ExpectedClassrooms(cs.name) \cap ContainedIn(item.recorder) = {}
  /\ KnownClassrooms \cap ContainedIn(item.recorder) # {}

\* is t the key of a record already in the list
SeenTime(field, evs, t) == \E i \in 1..Len(evs) : EventTime(field, evs[i]) = t
InSeq(evs, t) == \E i \in 1..Len(evs) : evs[i] = t

\* a deduplication in which the record seen last replaces the one of its key
AppendNewLastWins(cs, field, ev) ==
  IF SeenTime(field, cs[field], EventTime(field, ev))
  THEN [cs EXCEPT ![field] =
          [i \in 1..Len(@) |->
             IF EventTime(field, @[i]) = EventTime(field, ev) THEN ev ELSE @[i]]]
  ELSE [cs EXCEPT ![field] = Append(@, ev)]

\* "Deduplicate by timestamp": append unless a record with that key exists
AppendNew(cs, field, ev) ==
  IF SeenTime(field, cs[field], EventTime(field, ev)) THEN cs
  ELSE [cs EXCEPT ![field] = Append(@, ev)]

\* _parse_feed_item / _parse_feed_item_sync: the child summary after one item
ParseFeedItem(cs, item) ==
  IF OtherChildNamed(cs, item) \/ OtherClassroom(cs, item) THEN cs
  ELSE
    LET c1 == IF item.sign_out # None /\ ~InSeq(cs.sign_out_events, item.sign_out)
              THEN [cs EXCEPT !.sign_out_events = Append(@, item.sign_out)]
              ELSE cs
    IN IF item.sign_in # None
       THEN IF ~InSeq(c1.sign_in_events, item.sign_in)
            THEN [c1 EXCEPT !.sign_in_events = Append(@, item.sign_in)]
            ELSE c1
       ELSE IF "diaper" \in item.words THEN AppendNew(c1, "diapers", TimedEvent(item.ts, item.info))
       ELSE IF "bottle" \in item.words THEN AppendNew(c1, "bottles", TimedEvent(item.ts, item.info))
       ELSE IF "fluids" \in item.words THEN AppendNew(c1, "fluids", TimedEvent(item.ts, item.info))
       ELSE IF "nap" \in item.words
            THEN IF item.nap # None THEN AppendNew(c1, "naps", item.nap) ELSE c1
       ELSE IF "eating" \in item.words THEN AppendNew(c1, "meals", TimedEvent(item.ts, item.info))
       ELSE c1

\* ------------------------------------------------------ AI adapter (JSON)
\* A time string of the response: None (null or ""), <<"hm", t>> (a clock
\* time in one of the accepted formats) or <<"?">> (no time in it)
TimeStrs == {None, <<"?">>} \cup {<<"hm", t>> : t \in Times}
\* a "time" that is a JSON number, not a string
NumberTime == <<"num">>

\* AIParser._parse_time(time_str, date)
ParseTime(time_str, date) ==
  IF time_str = None THEN date
  ELSE IF time_str[1] = "hm" THEN <<date[1], time_str[2]>>
  ELSE date

\* the JSON object of a response: data.get(...) of each key; nulls are the
\* list keys whose value is JSON null. An entry of a list has
\*   shape   "object", or "scalar" for a string, a number or null
\*   time    (start and end for a nap) a time string or a number
\*   value   the ounces (the type, for a diaper): "" when the key is absent,
\*           "1" for a number, "x" for what float() refuses
ListKeys == {"bottles", "diapers", "fluids", "naps"}
EmptyData ==
  [sign_in |-> None, sign_out |-> None,
   bottles |-> <<>>, diapers |-> <<>>, fluids |-> <<>>, naps |-> <<>>,
   nulls |-> {}]

\* float(bottle.get("consumed", 0)) raises ValueError or TypeError: the
\* entry's own try/except catches it and the loop goes on
EntrySkipped(entry, numeric) == numeric /\ entry.value = "x"

\* the loops over bottles, diapers, fluids: diaper.get("type", "Unknown") is
\* taken as it is, the ounces go through float()
RECURSIVE MapTimed(_, _, _)
MapTimed(entries, date, numeric) ==
  IF entries = <<>> THEN <<>>
  ELSE (IF EntrySkipped(Head(entries), numeric) THEN <<>>
        ELSE <<TimedEvent(ParseTime(Head(entries).time, date),
                          IF Head(entries).value = "" THEN 0 ELSE 1)>>)
       \o MapTimed(Tail(entries), date, numeric)

\* what no "except (ValueError, TypeError)" of _parse_ai_response catches:
\* AttributeError of .get on an entry that is no object and of .strip on a
\* time that is no string, TypeError of iterating null (raised outside the try)
AIEscapes(data) ==
  \/ data.nulls # {}
  \/ data.sign_in = NumberTime \/ data.sign_out = NumberTime
  \/ \E f \in {"bottles", "diapers", "fluids"} : \E i \in 1..Len(data[f]) :
        data[f][i].shape = "scalar" \/ data[f][i].time = NumberTime
  \/ \E i \in 1..Len(data.naps) :
        \/ data.naps[i].shape = "scalar"
        \/ data.naps[i].start = NumberTime \/ data.naps[i].end = NumberTime

RECURSIVE MapNaps(_, _)
MapNaps(entries, date) ==
  IF entries = <<>> THEN <<>>
  ELSE <<NappingEvent(ParseTime(Head(entries).start, date),
                      IF Head(entries).end # None
                      THEN ParseTime(Head(entries).end, date) ELSE None)>>
       \o MapNaps(Tail(entries), date)

\* AIParser._parse_ai_response, from the parsed JSON object on
ParseAIResponse(data, child_name, date) ==
  [ChildSummary(child_name) EXCEPT
     !.sign_in = IF data.sign_in # None THEN ParseTime(data.sign_in, date) ELSE None,
     !.sign_out = IF data.sign_out # None THEN ParseTime(data.sign_out, date) ELSE None,
     !.bottles = MapTimed(data.bottles, date, TRUE),
     !.diapers = MapTimed(data.diapers, date, FALSE),
     !.fluids = MapTimed(data.fluids, date, TRUE),
     !.naps = MapNaps(data.naps, date)]

\* AIParser.parse_feed on a response holding a JSON object: the summary, or
\* None when "except Exception" catches what _parse_ai_response let escape
ParseFeed(data, child_name, date) ==
  IF AIEscapes(data) THEN None ELSE ParseAIResponse(data, child_name, date)

\* a test of the AI result that looks at the lists only
AIUsableListsOnly(res) ==
  \/ res.bottles # <<>> \/ res.diapers # <<>>
  \/ res.naps # <<>> \/ res.fluids # <<>>

\* "if ai_result and (ai_result.bottles or ai_result.diapers or ...)"
AIUsable(res) ==
  \/ res.bottles # <<>> \/ res.diapers # <<>>
  \/ res.naps # <<>> \/ res.fluids # <<>>
  \/ res.sign_in # None \/ res.sign_out # None

\* ----------------------------------------------------- partition by date
\* events_by_date: keys in insertion order, by[date_str][child_name]
EmptyByDate == [keys |-> <<>>, by |-> <<>>]

\* events_by_date[date_str] on the defaultdict, then the "if child_name not in"
Touch(ebd, d, c) ==
  LET keys == IF d \in DOMAIN ebd.by THEN ebd.keys ELSE Append(ebd.keys, d)
      at   == IF d \in DOMAIN ebd.by THEN ebd.by[d] ELSE <<>>
      at2  == IF c \in DOMAIN at THEN at ELSE DictPut(at, c, ChildSummary(c))
  IN [keys |-> keys, by |-> DictPut(ebd.by, d, at2)]

\* a grouping under the date of the scrape instead of the event's own date
PlaceOnScrapeDate(ebd, c, field, ev) ==
  LET d   == RefDate
      e1  == Touch(ebd, d, c)
      cs  == e1.by[d][c]
      cs2 == IF field \in {"sign_in", "sign_out"}
             THEN [cs EXCEPT ![field] = ev]
             ELSE [cs EXCEPT ![field] = Append(@, ev)]
  IN [e1 EXCEPT !.by = DictPut(e1.by, d, DictPut(e1.by[d], c, cs2))]

\* a grouping that assigns the list fields as it assigns the scalar ones
PlaceAssigning(ebd, c, field, ev) ==
  LET t   == IF field \in {"sign_in", "sign_out"} THEN ev ELSE EventTime(field, ev)
      d   == DateStr(t)
      e1  == Touch(ebd, d, c)
      cs  == e1.by[d][c]
      cs2 == IF field \in {"sign_in", "sign_out"}
             THEN [cs EXCEPT ![field] = ev]
             ELSE [cs EXCEPT ![field] = <<ev>>]
  IN [e1 EXCEPT !.by = DictPut(e1.by, d, DictPut(e1.by[d], c, cs2))]

\* a grouping in which the first sign-in or sign-out of a date stays
PlaceKeepsFirst(ebd, c, field, ev) ==
  LET t   == IF field \in {"sign_in", "sign_out"} THEN ev ELSE EventTime(field, ev)
      d   == DateStr(t)
      e1  == Touch(ebd, d, c)
      cs  == e1.by[d][c]
      cs2 == IF field \in {"sign_in", "sign_out"}
             THEN (IF cs[field] = None THEN [cs EXCEPT ![field] = ev] ELSE cs)
             ELSE [cs EXCEPT ![field] = Append(@, ev)]
  IN [e1 EXCEPT !.by = DictPut(e1.by, d, DictPut(e1.by[d], c, cs2))]

\* one loop body of the seven loops over a child's events
Place(ebd, c, field, ev) ==
  LET t   == IF field \in {"sign_in", "sign_out"} THEN ev ELSE EventTime(field, ev)
      d   == DateStr(t)
      e1  == Touch(ebd, d, c)
      cs  == e1.by[d][c]
      cs2 == IF field \in {"sign_in", "sign_out"}
             THEN [cs EXCEPT ![field] = ev]
             ELSE [cs EXCEPT ![field] = Append(@, ev)]
  IN [e1 EXCEPT !.by = DictPut(e1.by, d, DictPut(e1.by[d], c, cs2))]

RECURSIVE PlaceAll(_, _, _, _)
PlaceAll(ebd, c, field, evs) ==
  IF evs = <<>> THEN ebd
  ELSE PlaceAll(Place(ebd, c, field, Head(evs)), c, field, Tail(evs))

\* the body of "for child_name, child in summary.children.items()"
PartitionChild(ebd, c, cs) ==
  LET e1 == PlaceAll(ebd, c, "sign_in", cs.sign_in_events)
      e2 == PlaceAll(e1, c, "sign_out", cs.sign_out_events)
      e3 == PlaceAll(e2, c, "bottles", cs.bottles)
      e4 == PlaceAll(e3, c, "fluids", cs.fluids)
      e5 == PlaceAll(e4, c, "diapers", cs.diapers)
      e6 == PlaceAll(e5, c, "naps", cs.naps)
  IN PlaceAll(e6, c, "meals", cs.meals)

RECURSIVE PartitionFrom(_, _, _)
PartitionFrom(ebd, children, i) ==
  IF i > Len(ChildOrder) THEN ebd
  ELSE LET c == ChildOrder[i]
       IN PartitionFrom(IF c \in DOMAIN children
                        THEN PartitionChild(ebd, c, children[c]) ELSE ebd,
                        children, i + 1)

\* events_by_date after the grouping loop
PartitionByDate(daily) == PartitionFrom(EmptyByDate, daily.children, 1)

\* ------------------------------------------------------- derived totals
\* minutes from datetime a to datetime b (a clock time counts minutes)
DayMinutes == 24 * 60
MinutesBetween(a, b) == (b[1] - a[1]) * DayMinutes + (b[2] - a[2])

\* NappingEvent.duration_minutes: <<minutes>>, None for a nap without end
DurationMinutes(nap) ==
  IF nap.end_time # None THEN <<MinutesBetween(nap.start_time, nap.end_time)>> ELSE None

\* sum(b.ounces_consumed for b in bottles), sum(f.ounces for f in fluids):
\* info is the ounces of the record
RECURSIVE SumOunces(_)
SumOunces(evs) == IF evs = <<>> THEN 0 ELSE Head(evs).info + SumOunces(Tail(evs))

\* sum(n.duration_minutes or 0 for n in naps)
RECURSIVE TotalNapMinutes(_)
TotalNapMinutes(naps) ==
  IF naps = <<>> THEN 0
  ELSE (IF DurationMinutes(Head(naps)) = None THEN 0 ELSE DurationMinutes(Head(naps))[1])
       + TotalNapMinutes(Tail(naps))

\* sum(1 for d in diapers if d.diaper_type.lower() == ...): info 1 is "Wet",
\* info 2 is "BM", info 0 the default "Unknown"
CountType(evs, v) == Cardinality({i \in 1..Len(evs) : evs[i].info = v})

\* the "totals" block of to_dict, from the properties of ChildSummary
Totals(cs) ==
  [bottle_oz |-> SumOunces(cs.bottles),
   fluids_oz |-> SumOunces(cs.fluids),
   nap_minutes |-> TotalNapMinutes(cs.naps),
   wet_diapers |-> CountType(cs.diapers, 1),
   bm_diapers |-> CountType(cs.diapers, 2),
   meals_count |-> Len(cs.meals)]

\* ------------------------------------------------------- the date store
\* DailySummary.to_dict, per child
IsoOrNull(t) == IF t = None THEN None ELSE IsoFormat(t)
ChildToDict(cs) ==
  [sign_in |-> IsoOrNull(cs.sign_in),
   sign_out |-> IsoOrNull(cs.sign_out),
   bottles |-> [i \in 1..Len(cs.bottles) |-> [time |-> IsoFormat(cs.bottles[i].time), info |-> cs.bottles[i].info]],
   fluids |-> [i \in 1..Len(cs.fluids) |-> [time |-> IsoFormat(cs.fluids[i].time), info |-> cs.fluids[i].info]],
   diapers |-> [i \in 1..Len(cs.diapers) |-> [time |-> IsoFormat(cs.diapers[i].time), info |-> cs.diapers[i].info]],
   naps |-> [i \in 1..Len(cs.naps) |->
               [start |-> IsoFormat(cs.naps[i].start_time),
                end |-> IsoOrNull(cs.naps[i].end_time),
                duration_minutes |-> DurationMinutes(cs.naps[i])]],
   meals |-> [i \in 1..Len(cs.meals) |-> [time |-> IsoFormat(cs.meals[i].time), info |-> cs.meals[i].info]],
   totals |-> Totals(cs)]

ToDict(daily) ==
  [date |-> daily.date,
   children |-> [c \in DOMAIN daily.children |-> ChildToDict(daily.children[c])]]

\* get_summary: a row for the date exists ("if existing and existing.get('data')")
HasSummary(st, d) == d \in DOMAIN st

\* a save that leaves the totals of a stored child as they are
SaveSummaryKeepsTotals(st, daily) ==
  LET new == ToDict(daily)
      d   == daily.date
  IN DictPut(st, d,
       [new EXCEPT !.children =
          [c \in DOMAIN new.children |->
             IF d \in DOMAIN st /\ c \in DOMAIN st[d].children
             THEN [new.children[c] EXCEPT !.totals = st[d].children[c].totals]
             ELSE new.children[c]]])

\* get_child_stats(child_name): per stored date, the child's totals as the
\* row holds them, zeros when the row has no such child
ZeroTotals ==
  [bottle_oz |-> 0, fluids_oz |-> 0, nap_minutes |-> 0,
   wet_diapers |-> 0, bm_diapers |-> 0, meals_count |-> 0]
GetChildStats(st, child_name) ==
  [d \in DOMAIN st |->
     IF child_name \in DOMAIN st[d].children
     THEN st[d].children[child_name].totals ELSE ZeroTotals]

\* save_summary: INSERT ... ON CONFLICT(date) DO UPDATE SET data = excluded.data
SaveSummary(st, daily) == DictPut(st, daily.date, ToDict(daily))

\* a merge that appends the new lists to the stored ones
MergeChildAppends(new_child, existing_child) ==
  LET si == IF new_child.sign_in = None /\ existing_child.sign_in # None
            THEN FromIsoFormat(existing_child.sign_in) ELSE new_child.sign_in
      so == IF new_child.sign_out = None /\ existing_child.sign_out # None
            THEN FromIsoFormat(existing_child.sign_out) ELSE new_child.sign_out
      old(f) == [i \in 1..Len(existing_child[f]) |->
                   TimedEvent(FromIsoFormat(existing_child[f][i].time),
                              existing_child[f][i].info)]
  IN [new_child EXCEPT !.sign_in = si, !.sign_out = so,
                       !.bottles = old("bottles") \o @,
                       !.diapers = old("diapers") \o @]

\* a merge that takes the new partition as it is
MergeChildNewOnly(new_child, existing_child) == new_child

\* a merge in which a stored sign-in or sign-out wins over a supplied one
MergeChildStoredWins(new_child, existing_child) ==
  LET si == IF existing_child.sign_in # None
            THEN FromIsoFormat(existing_child.sign_in) ELSE new_child.sign_in
      so == IF existing_child.sign_out # None
            THEN FromIsoFormat(existing_child.sign_out) ELSE new_child.sign_out
  IN [new_child EXCEPT !.sign_in = si, !.sign_out = so]

\* "keep existing sign_in/out if new ones are missing"
MergeChild(new_child, existing_child) ==
  LET si == IF new_child.sign_in = None /\ existing_child.sign_in # None
            THEN FromIsoFormat(existing_child.sign_in) ELSE new_child.sign_in
      so == IF new_child.sign_out = None /\ existing_child.sign_out # None
            THEN FromIsoFormat(existing_child.sign_out) ELSE new_child.sign_out
  IN [new_child EXCEPT !.sign_in = si, !.sign_out = so]

\* the DailySummary of one date, merged with the stored row of that date
MergeExisting(st, d, children) ==
  [date |-> d,
   children |->
     [c \in DOMAIN children |->
        IF HasSummary(st, d) /\ c \in DOMAIN st[d].children
        THEN MergeChild(children[c], st[d].children[c])
        ELSE children[c]]]

RECURSIVE SaveDates(_, _, _)
SaveDates(st, ebd, keys) ==
  IF keys = <<>> THEN st
  ELSE SaveDates(SaveSummary(st, MergeExisting(st, Head(keys), ebd.by[Head(keys)])),
                 ebd, Tail(keys))

\* the store after split_and_save_by_date(summary)
SplitAndSaveByDate(st, daily) ==
  LET ebd == PartitionByDate(daily) IN SaveDates(st, ebd, ebd.keys)

\* the dict split_and_save_by_date returns: date_str -> DailySummary
SummariesByDate(st, daily) ==
  LET ebd == PartitionByDate(daily)
  IN [d \in DOMAIN ebd.by |-> MergeExisting(st, d, ebd.by[d])]

\* ------------------------------------------------------ what a scrape sees
\* the "Recorded by" label of the child's own classroom
OwnRecorder(c) ==
  IF c = "Ezra Doe" THEN "Infant C"
  ELSE IF c = "Killian Doe" THEN "Older P" ELSE "Toddler B"

\* the well-formed cards of child c's feed, one event each
SignOutCard(c, recorder, t) == FeedItem({c}, recorder, t, None, {}, t, None, 1)
SignInCard(c, recorder, t) == FeedItem({c}, recorder, None, t, {}, t, None, 1)
EventCard(recorder, word, t) == FeedItem({}, recorder, None, None, {word}, t, None, 1)
NapCard(recorder, s, e) ==
  FeedItem({}, recorder, None, None, {"nap"}, s, NappingEvent(s, e), 1)

Cards(c) ==
  {SignOutCard(c, OwnRecorder(c), t) : t \in DateTimes}
  \cup {SignInCard(c, OwnRecorder(c), t) : t \in DateTimes}
  \cup {EventCard(OwnRecorder(c), w, t) : w \in Keywords \ {"nap"}, t \in DateTimes}
  \cup {FeedItem({}, OwnRecorder(c), None, None, {"diaper"}, t, None, 2) : t \in DateTimes}
  \cup UNION {{NapCard(OwnRecorder(c), t, e) : e \in {None, <<t[1], MaxTime>>}} :
                t \in DateTimes}

\* the child summaries the cascade reaches from `from` in at most n items
RECURSIVE CascadeResults(_, _, _)
CascadeResults(c, its, n) ==
  IF n = 0 THEN {ChildSummary(c)}
  ELSE LET prev == CascadeResults(c, its, n - 1)
       IN prev \cup {ParseFeedItem(cs, item) : cs \in prev, item \in its}

\* the JSON objects of the backend with at most n entries in all
AIEntries ==
  {<<"sign_in", s>> : s \in TimeStrs \ {None}}
  \cup {<<"sign_out", s>> : s \in TimeStrs \ {None}}
  \cup {<<f, [shape |-> "object", time |-> s, value |-> "1"]>> :
           f \in {"bottles", "diapers", "fluids"}, s \in TimeStrs}
  \cup {<<"naps", [shape |-> "object", start |-> s, end |-> e]>> :
           s \in TimeStrs, e \in {None, <<"hm", MaxTime>>}}

WithEntry(data, entry) ==
  IF entry[1] \in {"sign_in", "sign_out"}
  THEN [data EXCEPT ![entry[1]] = entry[2]]
  ELSE [data EXCEPT ![entry[1]] = Append(@, entry[2])]

RECURSIVE AIData(_)
AIData(n) ==
  IF n = 0 THEN {EmptyData}
  ELSE LET prev == AIData(n - 1)
       IN prev \cup {WithEntry(data, entry) : data \in prev, entry \in AIEntries}

\* number of event records a child summary carries
EventCount(cs) ==
  (IF cs.sign_in = None THEN 0 ELSE 1) + (IF cs.sign_out = None THEN 0 ELSE 1)
  + Len(cs.sign_in_events) + Len(cs.sign_out_events)
  + Len(cs.bottles) + Len(cs.fluids) + Len(cs.diapers)
  + Len(cs.naps) + Len(cs.meals)

\* what _scrape_child_feed can return for child c, with at most n records
ChildResults(c, n) ==
  CascadeResults(c, Cards(c), n)
  \cup {r \in {ParseAIResponse(data, c, ReferenceDate) : data \in AIData(n)} : AIUsable(r)}

\* DailySummary(date=date) with the children scraped
DailySummary(children) == [date |-> ReferenceDate, children |-> children]

\* what get_daily_events can return: a child whose tab cannot be selected
\* is skipped, every other child gets its _scrape_child_feed result
ScrapeResults ==
  LET a == ChildOrder[1]
      b == ChildOrder[2]
  IN {DailySummary(<<>>)}
     \cup {DailySummary(a :> r) : r \in ChildResults(a, MaxEvents)}
     \cup {DailySummary(b :> r) : r \in ChildResults(b, MaxEvents)}
     \cup UNION {{DailySummary((a :> r) @@ (b :> q)) :
                    r \in {x \in ChildResults(a, k) : EventCount(x) = k},
                    q \in ChildResults(b, MaxEvents - k)} : k \in 0..MaxEvents}

\* event records of a scrape result
TotalCount(s) ==
  LET n(c) == IF c \in DOMAIN s.children THEN EventCount(s.children[c]) ELSE 0
  IN n(ChildOrder[1]) + n(ChildOrder[2])

\* the scrape results with at most n event records
ResultsWithin == [n \in 0..MaxEvents |-> {s \in ScrapeResults : TotalCount(s) <= n}]

\* the feed segments the cascade of child c may be given: the well-formed
\* cards, cards of another child or classroom, and cards several patterns match
OtherChild(c) == IF c = ChildOrder[1] THEN ChildOrder[2] ELSE ChildOrder[1]
\* the child tabs of the page: the two children the classroom table knows,
\* and one it has no entry for
ChildTabs == Children \cup {"Jane Doe"}
\* the timestamps the "Occurred at" line of a sign card may show
Stamps == {<<RefDate, h, 30, ap>> : h \in {5, 12}, ap \in {"AM", "PM"}}

\* the sign-out and sign-in cards of child c as text, recorded by the
\* classroom or by a parent, and cards that lack a line of the structure
SignCardTexts(c) ==
  {CardText(h, c, r, s, {}) :
     h \in {"Sign Out", "Sign In"}, r \in {OwnRecorder(c), "Kyle A"}, s \in Stamps}
  \cup {CardText("Sign Out", c, "", <<RefDate, 5, 30, "PM">>, {}),
        CardText("Sign Out", c, OwnRecorder(c), None, {})}

FeedItems(c) ==
  LET t == <<RefDate, 1>>
      u == <<RefDate, MaxTime>>
  IN Cards(c)
     \cup {Segment(text, ReferenceDate) : text \in SignCardTexts(c)}
     \cup {SignInCard(OtherChild(c), OwnRecorder(c), t),
           EventCard("Toddler B", "diaper", t),
           EventCard(OwnRecorder(OtherChild(c)), "diaper", u),
           EventCard("Kyle A", "bottle", t),
           EventCard("", "fluids", t),
           FeedItem({c}, OwnRecorder(c), t, u, {"diaper"}, t, None, 1),
           FeedItem({c}, OwnRecorder(c), t, None, {"diaper"}, t, None, 1),
           FeedItem({}, OwnRecorder(c), None, None, {"diaper", "bottle"}, t, None, 1),
           FeedItem({}, OwnRecorder(c), None, None, {"nap"}, t, None, 1),
           FeedItem({}, OwnRecorder(c), None, None, {"bottle"}, t, None, 0),
           FeedItem({}, OwnRecorder(c), None, None, {"fluids"}, t, None, 0),
           FeedItem({}, OwnRecorder(c), None, None, {"bottle"}, ReferenceDate, None, 1)}

\* entries and values the prompt does not ask for: ounces that are no
\* number or are missing, an entry that is no object, a time that is a number
AIMalformed ==
  {<<f, [shape |-> "object", time |-> <<"hm", 1>>, value |-> v]>> :
     f \in {"bottles", "diapers", "fluids"}, v \in {"", "x"}}
  \cup {<<"bottles", [shape |-> "scalar", time |-> None, value |-> ""]>>,
        <<"diapers", [shape |-> "object", time |-> NumberTime, value |-> "1"]>>,
        <<"naps", [shape |-> "scalar", start |-> None, end |-> None]>>,
        <<"sign_in", NumberTime>>}

\* the clock times a text may show: every hour of the 12-hour clock, and
\* clocks a pattern matches that are none
Minutes == {0, 30, 59}
Clocks == {<<h, m, ap>> : h \in 1..12, m \in Minutes, ap \in {"AM", "PM"}}
BadClocks == {<<13, 15, "PM">>, <<5, 75, "PM">>, <<0, 15, "AM">>, <<15, 15, "AM">>}

\* the timestamp of a fragment: none, a bare clock time, a date and a clock time
TimeFragments ==
  {None} \cup Clocks \cup BadClocks
  \cup {<<d>> \o clock : d \in Dates, clock \in Clocks \cup BadClocks}

\* the clock time of a timestamp
ClockOf(stamp) == IF IsFull(stamp) THEN Tail(stamp) ELSE stamp

\* the clock times of a nap window: around midnight, around noon, afternoon
NapClocks == {<<h, m, ap>> : h \in {1, 11, 12}, m \in {15, 30}, ap \in {"AM", "PM"}}

\* the bottle segments a feed may hold
OptOunces == {None} \cup {<<n>> : n \in Ounces}
BottleTexts ==
  {BottleText(o, c, g) : o \in OptOunces, c \in OptOunces, g \in OptOunces}

\* the JSON objects a backend response may hold: the well-formed ones, and
\* those with one malformed entry or one null list
AIResponses ==
  AIData(MaxEvents)
  \cup {WithEntry(data, entry) : data \in AIData(MaxEvents - 1), entry \in AIMalformed}
  \cup {[data EXCEPT !.nulls = {f}] : data \in AIData(MaxEvents - 1), f \in ListKeys}

\* total_events of run_scrape
TotalEvents(s) ==
  LET n(c) == IF c \in DOMAIN s.children
              THEN Len(s.children[c].bottles) + Len(s.children[c].diapers)
                   + Len(s.children[c].naps) + Len(s.children[c].fluids)
                   + Len(s.children[c].meals)
                   + (IF s.children[c].sign_in # None THEN 1 ELSE 0)
                   + (IF s.children[c].sign_out # None THEN 1 ELSE 0)
              ELSE 0
  IN n(ChildOrder[1]) + n(ChildOrder[2])

\* the scrape results the concurrent runs draw from: nothing, a bottle of
\* today, a sign-in card of yesterday, a bottle of yesterday and one of today
ScrapeSamples ==
  {DailySummary(<<>>),
   DailySummary(ChildOrder[1] :>
     [ChildSummary(ChildOrder[1]) EXCEPT
        !.bottles = <<TimedEvent(<<1, 1>>, 1), TimedEvent(<<RefDate, 1>>, 1)>>]),
   DailySummary(ChildOrder[1] :>
     [ChildSummary(ChildOrder[1]) EXCEPT !.bottles = <<TimedEvent(<<RefDate, 1>>, 1)>>]),
   DailySummary(ChildOrder[2] :>
     [ChildSummary(ChildOrder[2]) EXCEPT !.sign_in_events = <<<<1, 1>>>>])}

\* ------------------------------------------------------------ the state
VARIABLES
  store,      \* the summaries table: date -> data
  before,     \* the summaries table as the last split_and_save_by_date found it
  summary,    \* the DailySummary the last get_daily_events returned
  summaries_by_date,  \* what the last split_and_save_by_date returned
  mpc,        \* where the sequential scrape cycle is
  nscrapes,   \* scrape cycles completed
  nevents,    \* event records the scrapes have extracted so far
  epc,        \* where _scrape_child_feed is
  ai_data,    \* the JSON object of the backend's response, while it is parsed
  child,      \* its local `child`, the summary the cascade fills
  ai_outcome, \* how the AI attempt ended: "", "disabled", "raised", "none", "result"
  ai_result,  \* its local `ai_result`: <<>> for None, <<r>> for a summary r
  items,      \* the feed items the cascade has gone through
  returned,   \* <<r>> once _scrape_child_feed has returned r
  locked,     \* _scrape_lock._locked
  waiters,    \* _scrape_lock._waiters, as the run_scrape invocations waiting
  pc,         \* where each run_scrape invocation is
  origin,     \* what started each invocation
  sched,      \* where scheduler_loop is
  response,   \* the status of the last POST /api/scrape
  scrape_log, \* the scrape_log table: <<invocation, success, events_count>>
  pkind,      \* which field parser or time resolver ran last
  pin,        \* the text it was given, by what its patterns find in it
  pout        \* what it returned

storeVars == <<store, before, summary, summaries_by_date>>
cycleVars == <<mpc, nscrapes, nevents>>
extractVars == <<epc, child, ai_outcome, ai_data, ai_result, items, returned>>
lockVars == <<locked, waiters, pc, origin, sched, response, scrape_log>>
parseVars == <<pkind, pin, pout>>
vars == <<storeVars, cycleVars, extractVars, lockVars, parseVars>>

\* the run_scrape invocations
Tasks == 1..MaxScrapes

InitStore ==
  /\ store = <<>>
  /\ before = <<>>
  /\ summary = DailySummary(<<>>)
  /\ summaries_by_date = <<>>
  /\ mpc = "idle"
  /\ nscrapes = 0
  /\ nevents = 0

InitExtract ==
  /\ epc = "idle"
  /\ child = ChildSummary(ChildOrder[1])
  /\ ai_outcome = ""
  /\ ai_data = <<>>
  /\ ai_result = <<>>
  /\ items = <<>>
  /\ returned = <<>>

InitLock ==
  /\ locked = FALSE
  /\ waiters = <<>>
  /\ pc = [t \in Tasks |-> "none"]
  /\ origin = [t \in Tasks |-> ""]
  /\ sched = "init"
  /\ response = ""
  /\ scrape_log = <<>>

InitParse ==
  /\ pkind = ""
  /\ pin = <<>>
  /\ pout = <<>>

Init == InitStore /\ InitExtract /\ InitLock /\ InitParse

\* -------------------------------------- the scrape cycle, one at a time
\* summary = await scraper.get_daily_events(...)
GetDailyEvents ==
  /\ mpc = "idle"
  /\ nscrapes < MaxScrapes
  /\ \E s \in ResultsWithin[MaxEvents - nevents] :
       /\ summary' = s
       /\ nevents' = nevents + TotalCount(s)
  /\ mpc' = "scraped"
  /\ UNCHANGED <<store, before, nscrapes, summaries_by_date, extractVars, parseVars, lockVars>>

\* summaries_by_date = await storage.split_and_save_by_date(summary)
SplitAndSave ==
  /\ mpc = "scraped"
  /\ before' = store
  /\ store' = SplitAndSaveByDate(store, summary)
  /\ summaries_by_date' = SummariesByDate(store, summary)
  /\ mpc' = "idle"
  /\ nscrapes' = nscrapes + 1
  /\ UNCHANGED <<summary, nevents, extractVars, parseVars, lockVars>>

NextMerge == GetDailyEvents \/ SplitAndSave
SpecMerge == Init /\ [][NextMerge]_vars

\* ------------------------------------------- extraction of one child
\* _scrape_child_feed(child_name, date) is entered
ScrapeChildFeed ==
  /\ epc \in {"idle", "done"}
  /\ \E c \in ChildTabs : child' = ChildSummary(c)
  /\ epc' = "ai"
  /\ ai_outcome' = ""
  /\ ai_data' = <<>>
  /\ ai_result' = <<>>
  /\ items' = <<>>
  /\ returned' = <<>>
  /\ UNCHANGED <<storeVars, cycleVars, lockVars, parseVars>>

\* "if self.ai_parser and self.ai_config and self.ai_config.enabled" is false
AIDisabled ==
  /\ epc = "ai"
  /\ ai_outcome' = "disabled"
  /\ epc' = "cascade"
  /\ UNCHANGED <<child, ai_data, ai_result, items, returned, storeVars, cycleVars, lockVars, parseVars>>

\* the backend call raises: parse_feed catches it and returns None, and
\* what escapes parse_feed is caught by _scrape_child_feed
AIRaises ==
  /\ epc = "ai"
  /\ ai_outcome' = "raised"
  /\ ai_result' = <<>>
  /\ epc' = "cascade"
  /\ UNCHANGED <<child, ai_data, items, returned, storeVars, cycleVars, lockVars, parseVars>>

\* parse_feed returns None: unknown provider, or no JSON object in the response
AINone ==
  /\ epc = "ai"
  /\ ai_outcome' = "none"
  /\ ai_result' = <<>>
  /\ epc' = "cascade"
  /\ UNCHANGED <<child, ai_data, items, returned, storeVars, cycleVars, lockVars, parseVars>>

\* the backend answers with text that holds a JSON object: json.loads
AIResponds ==
  /\ epc = "ai"
  /\ \E data \in AIResponses : ai_data' = <<data>>
  /\ epc' = "parse"
  /\ UNCHANGED <<child, ai_outcome, ai_result, items, returned,
                 storeVars, cycleVars, lockVars, parseVars>>

\* parse_feed returns what _parse_ai_response made of the object, or None
\* when that raised: a summary is returned at once when it carries anything
AIReturns ==
  /\ epc = "parse"
  /\ LET r == ParseFeed(ai_data[1], child.name, ReferenceDate)
     IN IF r = None
        THEN /\ ai_result' = <<>>
             /\ ai_outcome' = "none"
             /\ returned' = returned
             /\ epc' = "cascade"
        ELSE /\ ai_result' = <<r>>
             /\ ai_outcome' = "result"
             /\ IF AIUsable(r)
                THEN returned' = <<r>> /\ epc' = "done"
                ELSE returned' = returned /\ epc' = "cascade"
  /\ ai_data' = <<>>
  /\ UNCHANGED <<child, items, storeVars, cycleVars, lockVars, parseVars>>

\* one turn of "for item in feed_items" (or of the segments of the full text)
ParseItem ==
  /\ epc = "cascade"
  /\ Len(items) < MaxEvents
  /\ \E item \in FeedItems(child.name) :
       /\ child' = ParseFeedItem(child, item)
       /\ items' = Append(items, item)
  /\ UNCHANGED <<epc, ai_outcome, ai_data, ai_result, returned, storeVars, cycleVars, lockVars, parseVars>>

\* "return child"
ReturnChild ==
  /\ epc = "cascade"
  /\ returned' = <<child>>
  /\ epc' = "done"
  /\ UNCHANGED <<child, ai_outcome, ai_data, ai_result, items, storeVars, cycleVars, lockVars, parseVars>>

NextExtract ==
  \/ ScrapeChildFeed \/ AIDisabled \/ AIRaises \/ AINone \/ AIResponds \/ AIReturns
  \/ ParseItem \/ ReturnChild
SpecExtract == Init /\ [][NextExtract]_vars

\* ------------------------------------- field parsers and time resolvers
\* event = self._parse_bottle(text, timestamp)
ParseBottleText ==
  /\ \E text \in BottleTexts :
       /\ pin' = text
       /\ pout' = ParseBottle(text)
  /\ pkind' = "bottle"
  /\ UNCHANGED <<storeVars, cycleVars, extractVars, lockVars>>

\* a fragment given to each resolver, with `date` as the reference date:
\* _extract_timestamp, _parse_timestamp_string, AIParser._parse_time (on the
\* clock time, as the prompt asks for it) and _parse_napping ("Occurred at")
ResolveTime ==
  /\ \E stamp \in TimeFragments, d \in Dates :
       LET date == <<d, 0>>
       IN /\ pin' = [stamp |-> stamp, date |-> date]
          /\ pout' = [extract |-> ExtractTimestamp([stamp |-> stamp], date),
                      string |-> ParseTimestampString(stamp),
                      ai |-> IF stamp = None THEN <<"ok", date>>
                             ELSE ParseTimeOfClock(ClockOf(stamp), date),
                      nap |-> ParseNapping(NapText(None, stamp), date)]
  /\ pkind' = "time"
  /\ UNCHANGED <<storeVars, cycleVars, extractVars, lockVars>>

\* a nap segment "From <date> <clock> until <clock>" given to _parse_napping
ParseNapText ==
  /\ \E d \in Dates, from \in NapClocks, until \in NapClocks :
       LET text == NapText(<<(<<d>> \o from), until>>, None)
       IN /\ pin' = text
          /\ pout' = [nap |-> ParseNapping(text, <<RefDate, 0>>)]
  /\ pkind' = "nap"
  /\ UNCHANGED <<storeVars, cycleVars, extractVars, lockVars>>

NextParse == ParseBottleText \/ ResolveTime \/ ParseNapText
SpecParse == Init /\ [][NextParse]_vars

\* ------------------------------------------ the scrape lock and its users
\* the states of a run_scrape invocation that are inside "async with _scrape_lock"
InLock == {"login", "scrape", "save", "log", "notify", "except", "release"}

\* the next invocation to start, while there is one left
Unstarted == {t \in Tasks : pc[t] = "none"}
NextTask == CHOOSE t \in Unstarted : \A u \in Unstarted : t <= u

\* the `notify` argument of an invocation
Notifies(t) == origin[t] \in {"manual_notify", "daily"}

\* POST /api/scrape: 409 when the lock is held, otherwise a background task
TriggerScrape ==
  /\ IF locked
     THEN /\ response' = "409"
          /\ UNCHANGED <<pc, origin>>
     ELSE /\ Unstarted # {}
          /\ \E o \in {"manual", "manual_notify"} :
               origin' = [origin EXCEPT ![NextTask] = o]
          /\ pc' = [pc EXCEPT ![NextTask] = "created"]
          /\ response' = "started"
  /\ UNCHANGED <<locked, waiters, sched, scrape_log, storeVars, cycleVars, extractVars, parseVars>>

\* RUN_ON_STARTUP: scheduler_loop awaits run_scrape(notify=False) itself,
\* which runs on into the lock's acquire
StartupScrape ==
  /\ sched = "init"
  /\ Unstarted # {}
  /\ origin' = [origin EXCEPT ![NextTask] = "startup"]
  /\ sched' = "startup"
  /\ IF ~locked /\ waiters = <<>>
     THEN /\ locked' = TRUE
          /\ pc' = [pc EXCEPT ![NextTask] = "login"]
          /\ UNCHANGED waiters
     ELSE /\ waiters' = Append(waiters, NextTask)
          /\ pc' = [pc EXCEPT ![NextTask] = "waiting"]
          /\ UNCHANGED locked
  /\ UNCHANGED <<response, scrape_log, storeVars, cycleVars, extractVars, parseVars>>

\* RUN_ON_STARTUP is not set
SkipStartup ==
  /\ sched = "init"
  /\ sched' = "loop"
  /\ UNCHANGED <<locked, waiters, pc, origin, response, scrape_log,
                 storeVars, cycleVars, extractVars, parseVars>>

\* schedule.run_pending(): the daily job, asyncio.create_task(... notify=True)
DailyTrigger ==
  /\ sched = "loop"
  /\ Unstarted # {}
  /\ origin' = [origin EXCEPT ![NextTask] = "daily"]
  /\ pc' = [pc EXCEPT ![NextTask] = "created"]
  /\ UNCHANGED <<locked, waiters, sched, response, scrape_log,
                 storeVars, cycleVars, extractVars, parseVars>>

\* schedule.run_pending(): the interval job, asyncio.create_task(... notify=False)
IntervalTrigger ==
  /\ sched = "loop"
  /\ Unstarted # {}
  /\ origin' = [origin EXCEPT ![NextTask] = "interval"]
  /\ pc' = [pc EXCEPT ![NextTask] = "created"]
  /\ UNCHANGED <<locked, waiters, sched, response, scrape_log,
                 storeVars, cycleVars, extractVars, parseVars>>

\* an acquire that does not look at the lock
AcquireUnguarded(t) ==
  /\ pc[t] = "created"
  /\ locked' = TRUE
  /\ pc' = [pc EXCEPT ![t] = "login"]
  /\ UNCHANGED <<waiters, origin, sched, response, scrape_log,
                 storeVars, cycleVars, extractVars, parseVars>>

\* "async with _scrape_lock": taken when free and nobody waits, else wait in line
Acquire(t) ==
  /\ pc[t] = "created"
  /\ IF ~locked /\ waiters = <<>>
     THEN /\ locked' = TRUE
          /\ pc' = [pc EXCEPT ![t] = "login"]
          /\ UNCHANGED waiters
     ELSE /\ waiters' = Append(waiters, t)
          /\ pc' = [pc EXCEPT ![t] = "waiting"]
          /\ UNCHANGED locked
  /\ UNCHANGED <<origin, sched, response, scrape_log, storeVars, cycleVars, extractVars, parseVars>>

\* a woken waiter runs again: it leaves the line and takes the lock
Resume(t) ==
  /\ pc[t] = "woken"
  /\ waiters' = SelectSeq(waiters, LAMBDA u : u # t)
  /\ locked' = TRUE
  /\ pc' = [pc EXCEPT ![t] = "login"]
  /\ UNCHANGED <<origin, sched, response, scrape_log, storeVars, cycleVars, extractVars, parseVars>>

\* "async with PlaygroundScraper(...)" and "if not await scraper.login()":
\* logged in; or not, and log_scrape(False, "Login failed"); or the browser
\* start, login() or that log_scrape raises
Login(t) ==
  /\ pc[t] = "login"
  /\ \/ /\ pc' = [pc EXCEPT ![t] = "scrape"]
        /\ UNCHANGED scrape_log
     \/ /\ scrape_log' = Append(scrape_log, <<t, FALSE, 0>>)
        /\ pc' = [pc EXCEPT ![t] = "release"]
     \/ /\ pc' = [pc EXCEPT ![t] = "except"]
        /\ UNCHANGED scrape_log
  /\ UNCHANGED <<locked, waiters, origin, sched, response,
                 storeVars, cycleVars, extractVars, parseVars>>

\* summary = await scraper.get_daily_events(...), or it raises
GetEvents(t) ==
  /\ pc[t] = "scrape"
  /\ \/ /\ \E s \in ScrapeSamples :
             /\ TotalCount(s) <= MaxEvents - nevents
             /\ summary' = s
             /\ nevents' = nevents + TotalCount(s)
        /\ pc' = [pc EXCEPT ![t] = "save"]
     \/ /\ pc' = [pc EXCEPT ![t] = "except"]
        /\ UNCHANGED <<summary, nevents>>
  /\ UNCHANGED <<store, before, summaries_by_date, mpc, nscrapes,
                 locked, waiters, origin, sched, response, scrape_log, extractVars, parseVars>>

\* summaries_by_date = await storage.split_and_save_by_date(summary); or
\* get_summary or save_summary raises at one of the dates: the dates before
\* it are committed, each by its own save_summary, and nothing is assigned
Save(t) ==
  /\ pc[t] = "save"
  /\ before' = store
  /\ \/ /\ LET ebd == PartitionByDate(summary)
           IN \E k \in 0..(Len(ebd.keys) - 1) :
                store' = SaveDates(store, ebd, SubSeq(ebd.keys, 1, k))
        /\ pc' = [pc EXCEPT ![t] = "except"]
        /\ UNCHANGED summaries_by_date
     \/ /\ store' = SplitAndSaveByDate(store, summary)
        /\ summaries_by_date' = SummariesByDate(store, summary)
        /\ pc' = [pc EXCEPT ![t] = "log"]
  /\ UNCHANGED <<summary, cycleVars, locked, waiters, origin, sched, response,
                 scrape_log, extractVars, parseVars>>

\* await storage.log_scrape(True, ...), then "if notify and total_events > 0"
\* and "if today_str in summaries_by_date"; or log_scrape raises before its
\* commit
LogSuccess(t) ==
  /\ pc[t] = "log"
  /\ \/ /\ scrape_log' = Append(scrape_log, <<t, TRUE, TotalEvents(summary)>>)
        /\ pc' = [pc EXCEPT ![t] =
                    IF Notifies(t) /\ TotalEvents(summary) > 0
                       /\ RefDate \in DOMAIN summaries_by_date
                    THEN "notify" ELSE "release"]
     \/ /\ pc' = [pc EXCEPT ![t] = "except"]
        /\ UNCHANGED scrape_log
  /\ UNCHANGED <<locked, waiters, origin, sched, response,
                 storeVars, cycleVars, extractVars, parseVars>>

\* create_magic_token and notification_manager.send_summary, or one of them raises
Notify(t) ==
  /\ pc[t] = "notify"
  /\ \/ pc' = [pc EXCEPT ![t] = "release"]
     \/ pc' = [pc EXCEPT ![t] = "except"]
  /\ UNCHANGED <<locked, waiters, origin, sched, response, scrape_log,
                 storeVars, cycleVars, extractVars, parseVars>>

\* a handler that undoes what the failed scrape had written
ExceptRollsBack(t) ==
  /\ pc[t] = "except"
  /\ scrape_log' = Append(scrape_log, <<t, FALSE, 0>>)
  /\ pc' = [pc EXCEPT ![t] = "release"]
  /\ store' = before
  /\ UNCHANGED <<locked, waiters, origin, sched, response,
                 before, summary, summaries_by_date, cycleVars, extractVars, parseVars>>

\* a handler whose own exception leaves run_scrape past the lock's release
ExceptSkipsRelease(t) ==
  /\ pc[t] = "except"
  /\ \/ /\ scrape_log' = Append(scrape_log, <<t, FALSE, 0>>)
        /\ pc' = [pc EXCEPT ![t] = "release"]
     \/ /\ pc' = [pc EXCEPT ![t] = "done"]
        /\ UNCHANGED scrape_log
  /\ UNCHANGED <<locked, waiters, origin, sched, response,
                 storeVars, cycleVars, extractVars, parseVars>>

\* "except Exception as e": await storage.log_scrape(False, str(e)), or that
\* raises too and the exception leaves run_scrape through the lock's __aexit__
Except(t) ==
  /\ pc[t] = "except"
  /\ \/ scrape_log' = Append(scrape_log, <<t, FALSE, 0>>)
     \/ UNCHANGED scrape_log
  /\ pc' = [pc EXCEPT ![t] = "release"]
  /\ UNCHANGED <<locked, waiters, origin, sched, response,
                 storeVars, cycleVars, extractVars, parseVars>>

\* the lock's __aexit__: release, and wake the first in line; the startup
\* scrape returns into scheduler_loop
Release(t) ==
  /\ pc[t] = "release"
  /\ locked' = FALSE
  /\ pc' = [u \in Tasks |->
              IF u = t THEN "done"
              ELSE IF waiters # <<>> /\ u = Head(waiters) /\ pc[u] = "waiting"
                   THEN "woken" ELSE pc[u]]
  /\ sched' = IF origin[t] = "startup" THEN "loop" ELSE sched
  /\ nscrapes' = nscrapes + 1
  /\ UNCHANGED <<waiters, origin, response, scrape_log, storeVars, mpc, nevents,
                 extractVars, parseVars>>

Next ==
  \/ TriggerScrape \/ StartupScrape \/ SkipStartup \/ DailyTrigger \/ IntervalTrigger
  \/ \E t \in Tasks :
       \/ Acquire(t) \/ Resume(t) \/ Login(t) \/ GetEvents(t) \/ Save(t)
       \/ LogSuccess(t) \/ Notify(t) \/ Except(t) \/ Release(t)
Spec == Init /\ [][Next]_vars

\* the steps of invocation t; its position enables one of them at a time
RunScrape(t) ==
  \/ Acquire(t) \/ Resume(t) \/ Login(t) \/ GetEvents(t) \/ Save(t)
  \/ LogSuccess(t) \/ Notify(t) \/ Except(t) \/ Release(t)

\* the event loop runs every task that is ready, and every awaited call of
\* run_scrape returns or raises: no invocation's next step is put off for ever
Fairness == \A t \in Tasks : WF_vars(RunScrape(t))
SpecFair == Init /\ [][Next]_vars /\ Fairness

\* ------------------------------------------------- partition and merge
\* the last scrape result has been split and saved
Saved == mpc = "idle" /\ nscrapes > 0

\* the grouping of the last scrape result, before the merge with the store
Parts == PartitionByDate(summary).by
InParts(parts, d, c) == d \in DOMAIN parts /\ c \in DOMAIN parts[d]
WasStored(d, c) == d \in DOMAIN before /\ c \in DOMAIN before[d].children
IsStored(d, c) == d \in DOMAIN store /\ c \in DOMAIN store[d].children

\* C3: a stored aggregate with only a sign-out, merged with a partition that
\* carries only a sign-in for the same child and date, holds both afterwards;
\* and the same with sign-in and sign-out exchanged.
MergeKeepsBoth ==
  LET parts == Parts IN
    Saved =>
      \A d \in Dates, c \in Children :
        (InParts(parts, d, c) /\ WasStored(d, c)) =>
          LET old == before[d].children[c]
              new == parts[d][c]
              now == store[d].children[c]
          IN /\ (old.sign_out # None /\ old.sign_in = None
                   /\ new.sign_in # None /\ new.sign_out = None)
                => (now.sign_in = IsoFormat(new.sign_in) /\ now.sign_out = old.sign_out)
             /\ (old.sign_in # None /\ old.sign_out = None
                   /\ new.sign_out # None /\ new.sign_in = None)
                => (now.sign_out = IsoFormat(new.sign_out) /\ now.sign_in = old.sign_in)

MergeKeepsBothWitness ==
  LET parts == Parts IN
    /\ Saved
    /\ \E d \in Dates, c \in Children :
         /\ InParts(parts, d, c) /\ WasStored(d, c)
         /\ before[d].children[c].sign_out # None
         /\ before[d].children[c].sign_in = None
         /\ parts[d][c].sign_in # None /\ parts[d][c].sign_out = None
         /\ store[d].children[c].sign_in # None
         /\ store[d].children[c].sign_out # None

\* C4: every child entry, and every sign-in and sign-out time, stored for a
\* date before a merge is still stored for that date after it, whether or not
\* the child is part of the new partition.
NothingDiscarded ==
  Saved =>
    \A d \in DOMAIN before :
      /\ d \in DOMAIN store
      /\ \A c \in DOMAIN before[d].children :
           /\ c \in DOMAIN store[d].children
           /\ before[d].children[c].sign_in # None
                => store[d].children[c].sign_in = before[d].children[c].sign_in
           /\ before[d].children[c].sign_out # None
                => store[d].children[c].sign_out = before[d].children[c].sign_out

OnDate(d, t) == DateStr(t) = d
ChildOnDate(d, cs) ==
  /\ cs.sign_in # None => OnDate(d, cs.sign_in)
  /\ cs.sign_out # None => OnDate(d, cs.sign_out)
  /\ \A f \in ListFields :
       \A i \in 1..Len(cs[f]) : OnDate(d, EventTime(f, cs[f][i]))

PartitionsOnOwnDate ==
  \A d \in DOMAIN summaries_by_date :
    /\ summaries_by_date[d].date = d
    /\ \A c \in DOMAIN summaries_by_date[d].children :
         ChildOnDate(d, summaries_by_date[d].children[c])

\* one scrape, bottles on two dates: two summaries, one bottle each
PartitionsOnOwnDateWitness ==
  /\ Saved
  /\ \E c \in Children :
       /\ c \in DOMAIN summary.children
       /\ Len(summary.children[c].bottles) = 2
       /\ DOMAIN summaries_by_date = Dates
       /\ \A d \in Dates : Len(summaries_by_date[d].children[c].bottles) = 1

\* C7 as claimed and as amended
PartList(parts, d, c, f) == IF InParts(parts, d, c) THEN parts[d][c][f] ELSE <<>>
PartSign(parts, d, c, f) == IF InParts(parts, d, c) THEN parts[d][c][f] ELSE None

RECURSIVE EventsOn(_, _, _)
EventsOn(d, f, evs) ==
  IF evs = <<>> THEN <<>>
  ELSE (IF OnDate(d, EventTime(f, Head(evs))) THEN <<Head(evs)>> ELSE <<>>)
       \o EventsOn(d, f, Tail(evs))

RECURSIVE LastOn(_, _)
LastOn(d, ts) ==
  IF ts = <<>> THEN None
  ELSE IF OnDate(d, ts[Len(ts)]) THEN ts[Len(ts)]
  ELSE LastOn(d, SubSeq(ts, 1, Len(ts) - 1))

\* every list record is in the partition of its own date and in no other
ListsPartitioned(parts) ==
  \A c \in DOMAIN summary.children, f \in ListFields, d \in Dates :
    PartList(parts, d, c, f) = EventsOn(d, f, summary.children[c][f])

\* the sign-in and sign-out observations of a child, as a sequence
Observed(cs, f) ==
  IF f = "sign_in"
  THEN cs.sign_in_events \o (IF cs.sign_in # None THEN <<cs.sign_in>> ELSE <<>>)
  ELSE cs.sign_out_events \o (IF cs.sign_out # None THEN <<cs.sign_out>> ELSE <<>>)

\* C7 as claimed: nothing is lost and nothing duplicated, the sign-in and sign-out
\* observations included: each is in the partition of its own date, once.
PartitionLosesNothing ==
  LET parts == Parts IN
    /\ ListsPartitioned(parts)
    /\ \A c \in DOMAIN summary.children, f \in {"sign_in", "sign_out"}, d \in Dates :
         LET seen == EventsOn(d, f, [i \in 1..Len(Observed(summary.children[c], f)) |->
                                       [time |-> Observed(summary.children[c], f)[i]]])
         IN /\ Len(seen) <= 1
            /\ Len(seen) = 1 => PartSign(parts, d, c, f) = seen[1].time
            /\ Len(seen) = 0 => PartSign(parts, d, c, f) = None

\* C7 as amended: every bottle, fluids, diaper, nap and meal record is in exactly
\* one partition, that of its own date; the entries of sign_in_events and of
\* sign_out_events collapse to one per date, the last one observed on that date.
PartitionKeepsLists ==
  LET parts == Parts IN
    /\ ListsPartitioned(parts)
    /\ \A c \in DOMAIN summary.children, d \in Dates :
         /\ PartSign(parts, d, c, "sign_in") = LastOn(d, summary.children[c].sign_in_events)
         /\ PartSign(parts, d, c, "sign_out") = LastOn(d, summary.children[c].sign_out_events)

PartitionKeepsListsWitness ==
  LET parts == Parts IN
    \E c \in DOMAIN summary.children :
      /\ Saved
      /\ Len(summary.children[c].sign_in_events) = 2
      /\ DateStr(summary.children[c].sign_in_events[1])
           = DateStr(summary.children[c].sign_in_events[2])
      /\ InParts(parts, DateStr(summary.children[c].sign_in_events[1]), c)

\* C8: a sign-in or sign-out the AI adapter extracted (the scalar field; the
\* cascade fills the event sequences) is in the stored aggregate of its date
\* after the save, as the same one from the cascade would be.
AISignPersisted ==
  Saved =>
    \A c \in DOMAIN summary.children :
      /\ summary.children[c].sign_in # None
           => /\ IsStored(DateStr(summary.children[c].sign_in), c)
              /\ store[DateStr(summary.children[c].sign_in)].children[c].sign_in
                   = IsoFormat(summary.children[c].sign_in)
      /\ summary.children[c].sign_out # None
           => /\ IsStored(DateStr(summary.children[c].sign_out), c)
              /\ store[DateStr(summary.children[c].sign_out)].children[c].sign_out
                   = IsoFormat(summary.children[c].sign_out)

\* ------------------------------------------------------ extraction paths
\* the cascade over a sequence of feed items, from the summary cs on
RECURSIVE CascadeOver(_, _)
CascadeOver(cs, its) ==
  IF its = <<>> THEN cs ELSE CascadeOver(ParseFeedItem(cs, Head(its)), Tail(its))

\* C9: when the AI adapter is disabled, raises, returns None or returns a summary
\* empty across all event kinds, what _scrape_child_feed returns is the cascade's
\* result over the feed items, from an empty summary; otherwise it is the AI
\* result as it is, and the cascade has not run.
PathSelection ==
  epc = "done" =>
    IF ai_outcome = "result" /\ EventCount(ai_result[1]) > 0
    THEN returned = ai_result /\ items = <<>>
    ELSE /\ ai_outcome \in {"disabled", "raised", "none", "result"}
         /\ returned = <<CascadeOver(ChildSummary(child.name), items)>>

\* an AI result empty across all kinds, and the cascade's events returned
PathSelectionWitness ==
  /\ epc = "done"
  /\ ai_outcome = "result"
  /\ EventCount(ai_result[1]) = 0
  /\ EventCount(returned[1]) > 0

\* no two records of a list share their key
Deduplicated(cs) ==
  /\ \A f \in ListFields :
       \A i, j \in 1..Len(cs[f]) :
         i # j => EventTime(f, cs[f][i]) # EventTime(f, cs[f][j])
  /\ \A f \in {"sign_in_events", "sign_out_events"} :
       \A i, j \in 1..Len(cs[f]) : i # j => cs[f][i] # cs[f][j]

\* C10: the ChildSummary _scrape_child_feed returns, which get_daily_events hands
\* on to split_and_save_by_date unchanged, never holds two records of one kind
\* with the same key, whichever path produced it.
ReturnedDeduplicated == epc = "done" => Deduplicated(returned[1])

\* every list of cs0 is the beginning of the same list of cs1
KeepsRecords(cs0, cs1) ==
  \A f \in ListFields \cup {"sign_in_events", "sign_out_events"} :
    /\ Len(cs1[f]) >= Len(cs0[f])
    /\ SubSeq(cs1[f], 1, Len(cs0[f])) = cs0[f]

\* C11: in the cascade two records of one kind with the same key are
\* duplicates whatever their other fields say: a segment never changes or
\* removes a record an earlier segment added, and the record it adds, if any,
\* has a key no record of the list had.
FirstSeenWins ==
  [][epc = "cascade" /\ items' # items =>
       /\ KeepsRecords(child, child')
       /\ Deduplicated(child')]_vars

\* two bottle segments of one timestamp and different ounces, the first kept
FirstSeenWinsWitness ==
  /\ epc = "cascade"
  /\ Len(items) = 2
  /\ "bottle" \in items[1].words /\ "bottle" \in items[2].words
  /\ items[1].ts = items[2].ts
  /\ items[1].info # items[2].info
  /\ child.bottles = <<TimedEvent(items[1].ts, items[1].info)>>

\* C12: classification is first match wins, in the order sign-out, sign-in,
\* diaper, bottle, fluids, napping, meal: one segment adds at most one event
\* record to the summary, also when its text matches several patterns.
OneRecordPerSegment ==
  [][epc = "cascade" /\ items' # items =>
       EventCount(child') <= EventCount(child) + 1]_vars

\* the text of the sign-out card of the child being scraped, at stamp
SignOutText(recorder, stamp) == CardText("Sign Out", child.name, recorder, stamp, {})
IsOnly(text) == items = <<Segment(text, ReferenceDate)>>

\* C13: a segment holding a sign-out card ("Sign Out · <child>", "Recorded
\* by", "Occurred at <date> 5:30 PM") yields exactly one sign-out record, at
\* 17:30 of that date, and no sign-in record; 12:30 PM is 12:30, 12:30 AM
\* is 0:30.
SignOutCardYieldsSignOut ==
  \A r \in {OwnRecorder(child.name), "Kyle A"} :
    /\ IsOnly(SignOutText(r, <<RefDate, 5, 30, "PM">>)) =>
         /\ child.sign_out_events = <<<<RefDate, 17 * 60 + 30>>>>
         /\ child.sign_in_events = <<>>
         /\ EventCount(child) = 1
    /\ IsOnly(SignOutText(r, <<RefDate, 12, 30, "PM">>)) =>
         /\ child.sign_out_events = <<<<RefDate, 12 * 60 + 30>>>>
         /\ child.sign_in_events = <<>>
    /\ IsOnly(SignOutText(r, <<RefDate, 12, 30, "AM">>)) =>
         /\ child.sign_out_events = <<<<RefDate, 30>>>>
         /\ child.sign_in_events = <<>>

\* the 5:30 PM sign-out card has been parsed, as the only segment
SignOutCardWitness ==
  /\ epc = "cascade"
  /\ IsOnly(SignOutText("Kyle A", <<RefDate, 5, 30, "PM">>))
  /\ Len(child.sign_out_events) = 1

\* the segment the last cascade step was given
LastItem(its) == its[Len(its)]

\* C14: a segment whose sign-in or sign-out header names another child than
\* the one being processed adds no record: the summary is as it was.
OtherChildSegmentIgnored ==
  [][epc = "cascade" /\ items' # items
       /\ (\E n \in LastItem(items').names : n # child.name)
     => child' = child]_vars

\* a record of the child's own, then the sign-in card of the other child
OtherChildSegmentWitness ==
  /\ epc = "cascade"
  /\ Len(items) = 2
  /\ items[2].names = {OtherChild(child.name)}
  /\ items[2].sign_in # None
  /\ EventCount(child) = 1
  /\ child.sign_in_events = <<>>

\* C15: a segment that names a "Recorded by" actor is rejected, for every
\* child, when the actor resembles a known classroom label and does not match
\* the classroom identifier configured for the child.
OtherClassroomRejected ==
  [][epc = "cascade" /\ items' # items
       /\ (LET r == LastItem(items').recorder
           IN /\ r # "" /\ r # OwnRecorder(child.name)
              /\ KnownClassrooms \cap ContainedIn(r) # {}
              /\ ExpectedClassrooms(child.name) \cap ContainedIn(r) = {})
     => child' = child]_vars

\* an entry of a list of the response that is as the prompt asks for
WellFormed(f, entry) ==
  /\ entry.shape = "object"
  /\ entry.time # NumberTime
  /\ f = "diapers" \/ entry.value # "x"

\* C16: malformed output of the AI backend is tolerated entry by entry: an
\* entry of the wrong type, with ounces that are no number, that is no object,
\* or a list that is null, costs that entry only, and every well-formed entry
\* of the response is in the summary the adapter returns.
MalformedSkippedPerEntry ==
  [][epc = "parse" =>
       \A f \in {"bottles", "diapers", "fluids"} :
         \A i \in 1..Len(ai_data[1][f]) :
           WellFormed(f, ai_data[1][f][i]) =>
             /\ ai_result' # <<>>
             /\ \E j \in 1..Len(ai_result'[1][f]) :
                  ai_result'[1][f][j].time =
                    ParseTime(ai_data[1][f][i].time, ReferenceDate)]_vars

\* C17: when a field of a recognised segment fails to parse (no ounces, no
\* timestamp) no record is added: the cascade's summary never holds a
\* placeholder, a bottle or fluids record of 0 oz for want of a number or a
\* record stamped with the scrape's reference datetime for want of a time.
NoPlaceholderRecord ==
  /\ \A f \in {"bottles", "fluids"} :
       \A i \in 1..Len(child[f]) : child[f][i].info # 0
  /\ \A f \in ListFields :
       \A i \in 1..Len(child[f]) : EventTime(f, child[f][i]) # ReferenceDate

\* C19: the lists of a stored aggregate are replaced by each merge, not
\* appended to: merging the scrape result just merged once more leaves every
\* stored date (children, sign-in and sign-out, bottles, diapers, fluids,
\* naps, meals) as the first merge left it.
MergeTwiceIsMergeOnce == Saved => SplitAndSaveByDate(store, summary) = store

\* a scrape result with a bottle or a diaper has been merged into a date
\* that was stored before
MergeTwiceWitness ==
  /\ Saved
  /\ \E c \in DOMAIN summary.children :
       \E f \in {"bottles", "diapers"} : \E i \in 1..Len(summary.children[c][f]) :
         LET d == DateStr(summary.children[c][f][i].time)
         IN WasStored(d, c) /\ IsStored(d, c) /\ Len(store[d].children[c][f]) > 0
            /\ Len(before[d].children[c][f]) > 0

\* the naps of a list that have no end
ActiveNaps(naps) == {i \in 1..Len(naps) : naps[i].end_time = None}

\* C20: within the ChildSummary of one child for one date, as the partition
\* of a scrape result holds it, at most one napping record is active (has no
\* end time), whatever nap segments the scrape has seen.
OneActiveNap ==
  \A d \in DOMAIN summaries_by_date :
    \A c \in DOMAIN summaries_by_date[d].children :
      Cardinality(ActiveNaps(summaries_by_date[d].children[c].naps)) <= 1

\* the totals of a stored child, computed again from its stored lists
RECURSIVE StoredNapMinutes(_)
StoredNapMinutes(naps) ==
  IF naps = <<>> THEN 0
  ELSE (IF Head(naps).end = None THEN 0
        ELSE MinutesBetween(FromIsoFormat(Head(naps).start),
                            FromIsoFormat(Head(naps).end)))
       + StoredNapMinutes(Tail(naps))
Recomputed(cd) ==
  [bottle_oz |-> SumOunces(cd.bottles),
   fluids_oz |-> SumOunces(cd.fluids),
   nap_minutes |-> StoredNapMinutes(cd.naps),
   wet_diapers |-> CountType(cd.diapers, 1),
   bm_diapers |-> CountType(cd.diapers, 2),
   meals_count |-> Len(cd.meals)]

BottleOunceFallback ==
  pkind = "bottle" =>
    /\ (pin.offered = None /\ pin.consumed = None /\ pin.oz # None) =>
         pout = [ounces_offered |-> pin.oz[1], ounces_consumed |-> pin.oz[1]]
    /\ (pin.offered # None \/ pin.consumed # None) =>
         /\ pout.ounces_offered = (IF pin.offered # None THEN pin.offered[1] ELSE 0)
         /\ pout.ounces_consumed = (IF pin.consumed # None THEN pin.consumed[1] ELSE 0)

\* the hour of the 24-hour clock a 12-hour clock time stands for
Expected24(clock) ==
  IF clock[3] = "PM" /\ clock[1] # 12 THEN clock[1] + 12
  ELSE IF clock[3] = "AM" /\ clock[1] = 12 THEN 0 ELSE clock[1]
ExpectedMinutes(clock) == Expected24(clock) * 60 + clock[2]

\* C23: for every clock time with an hour in 1..12, a minute in 0..59 and a
\* meridiem, the resolved hour is hour+12 for PM and hour # 12, 0 for AM and
\* hour = 12, the hour itself otherwise, and so lies in 0..23; and
\* _extract_timestamp, _parse_timestamp_string, _parse_napping and
\* AIParser._parse_time resolve the same clock time to the same time of day.
MeridiemNormalized ==
  (pkind = "time" /\ pin.stamp # None
     /\ ClockOf(pin.stamp)[1] \in 1..12 /\ ClockOf(pin.stamp)[2] \in 0..59) =>
    LET clock == ClockOf(pin.stamp)
        day == IF IsFull(pin.stamp) THEN pin.stamp[1] ELSE pin.date[1]
    IN /\ Expected24(clock) \in 0..23
       /\ pout.extract = <<"ok", <<day, ExpectedMinutes(clock)>>>>
       /\ pout.ai = <<"ok", <<pin.date[1], ExpectedMinutes(clock)>>>>
       /\ IsFull(pin.stamp) =>
            /\ pout.string = pout.extract
            /\ pout.nap = <<"ok", NappingEvent(pout.extract[2], None)>>

\* 12:30 PM of a dated timestamp has been resolved by all four
MeridiemWitness ==
  /\ pkind = "time"
  /\ IsFull(pin.stamp)
  /\ ClockOf(pin.stamp) = <<12, 30, "PM">>
  /\ pout.string = <<"ok", <<pin.stamp[1], 12 * 60 + 30>>>>

\* C24: resolving a fragment that holds no parseable time returns the
\* reference date as it is and raises no error; a bare clock time is
\* resolved on the year, month and day of the reference date argument.
TemporalFallback ==
  pkind = "time" =>
    LET clock == ClockOf(pin.stamp)
        parseable == /\ pin.stamp # None
                     /\ Expected24(clock) \in 0..23 /\ clock[2] \in 0..59
    IN /\ ~parseable =>
            pout.extract = <<"ok", pin.date>> /\ pout.ai = <<"ok", pin.date>>
       /\ (parseable /\ IsBare(pin.stamp)) =>
            /\ pout.extract = <<"ok", <<pin.date[1], ExpectedMinutes(clock)>>>>
            /\ pout.ai = pout.extract

\* C25: after partitioning, a child's summary for a date holds one sign-in and
\* one sign-out at most, however many the scrape observed on that date; every
\* date with an observed sign-in (sign-out) keeps one, and where several were
\* observed on one date the one kept, and persisted, is the last one observed.
SignEvents(cs, f) == IF f = "sign_in" THEN cs.sign_in_events ELSE cs.sign_out_events

SignEventsCollapse ==
  Saved =>
    \A c \in DOMAIN summary.children, f \in {"sign_in", "sign_out"}, d \in Dates :
      LET last == LastOn(d, SignEvents(summary.children[c], f))
      IN /\ PartSign(Parts, d, c, f) \in {None} \cup DateTimes
         /\ PartSign(Parts, d, c, f) = last
         /\ last # None =>
              /\ d \in DOMAIN summaries_by_date
              /\ c \in DOMAIN summaries_by_date[d].children
              /\ summaries_by_date[d].children[c][f] = last
              /\ IsStored(d, c)
              /\ store[d].children[c][f] = IsoFormat(last)

\* two sign-ins of one child observed on one date at different clock times
SignEventsCollapseWitness ==
  /\ Saved
  /\ \E c \in DOMAIN summary.children :
       LET evs == summary.children[c].sign_in_events
       IN /\ Len(evs) = 2
          /\ DateStr(evs[1]) = DateStr(evs[2])
          /\ evs[1] # evs[2]
          /\ store[DateStr(evs[2])].children[c].sign_in = IsoFormat(evs[2])

\* the events of a grouping: list records, and one for each sign-in and sign-out
PartCount(parts, d, c) ==
  IF InParts(parts, d, c)
  THEN Len(parts[d][c].bottles) + Len(parts[d][c].fluids) + Len(parts[d][c].diapers)
       + Len(parts[d][c].naps) + Len(parts[d][c].meals)
       + (IF parts[d][c].sign_in # None THEN 1 ELSE 0)
       + (IF parts[d][c].sign_out # None THEN 1 ELSE 0)
  ELSE 0

RECURSIVE PersistedCount(_, _)
PersistedCount(parts, d) ==
  IF d = 0 THEN 0
  ELSE PartCount(parts, d, ChildOrder[1]) + PartCount(parts, d, ChildOrder[2])
       + PersistedCount(parts, d - 1)

\* invocation t writes its success entry in this step
LogsSuccess(t) == pc[t] = "log" /\ pc'[t] # "log"

\* C26: the events count of a success entry is the number of events the scrape
\* found and persisted across its date partitions, each sign-in and each
\* sign-out counting as one; a scrape with only sign-ins and sign-outs of the
\* pattern cascade is logged with a count above zero.
EventsCountLogged ==
  [][\A t \in Tasks :
       LogsSuccess(t) =>
         /\ Len(scrape_log') = Len(scrape_log) + 1
         /\ scrape_log'[Len(scrape_log')][3] = PersistedCount(Parts, MaxDate)]_vars

\* the scrape_log entries of invocation t
EntriesOf(t) == SelectSeq(scrape_log, LAMBDA e : e[1] = t)

\* C27: every run_scrape invocation appends exactly one scrape_log entry, a
\* success entry or a failure entry and never both, on every path: while it
\* runs it has written one at most, and when it has ended it has written one.
OneLogEntryPerScrape ==
  \A t \in Tasks :
    /\ Len(EntriesOf(t)) <= 1
    /\ pc[t] = "done" => Len(EntriesOf(t)) = 1

ChildEventDates(cs) ==
  {DateStr(cs.sign_in) : x \in IF cs.sign_in # None THEN {1} ELSE {}}
  \cup {DateStr(cs.sign_out) : x \in IF cs.sign_out # None THEN {1} ELSE {}}
  \cup {DateStr(cs.sign_in_events[i]) : i \in 1..Len(cs.sign_in_events)}
  \cup {DateStr(cs.sign_out_events[i]) : i \in 1..Len(cs.sign_out_events)}
  \cup UNION {{DateStr(EventTime(f, cs[f][i])) : i \in 1..Len(cs[f])} : f \in ListFields}

EventDates(s) == UNION {ChildEventDates(s.children[c]) : c \in DOMAIN s.children}

\* C29: split_and_save_by_date writes exactly the dates on which the scrape
\* result holds at least one event; the stored aggregate of every other date is
\* as it was, and a scrape result with no events writes nothing.
MergeFrame ==
  Saved =>
    /\ DOMAIN summaries_by_date = EventDates(summary)
    /\ \A d \in Dates \ EventDates(summary) :
         /\ d \in DOMAIN store <=> d \in DOMAIN before
         /\ d \in DOMAIN store => store[d] = before[d]
    /\ TotalCount(summary) = 0 => store = before

\* the naps a child may already hold when a parsed nap is added
PriorNaps ==
  {<<>>, <<NappingEvent(<<1, 9 * 60>>, <<1, 9 * 60 + 30>>)>>,
   <<NappingEvent(<<1, 9 * 60>>, None)>>}

\* C30: every nap parsed from a from/until window has end >= start, so its
\* duration_minutes is >= 0 and a child's total nap minutes does not decrease
\* when the nap is added, for every pair of start and end clock times, a
\* window whose end clock time is earlier in the day than its start included.
NapDurationNonNegative ==
  (pkind = "nap" /\ pout.nap[1] = "ok") =>
    LET nap == pout.nap[2]
    IN /\ MinutesBetween(nap.start_time, nap.end_time) >= 0
       /\ DurationMinutes(nap)[1] >= 0
       /\ \A naps \in PriorNaps :
            TotalNapMinutes(Append(naps, nap)) >= TotalNapMinutes(naps)

\* ------------------------------------------------------- the scrape lock
\* C1: in every reachable state at most one run_scrape invocation is inside
\* the scrape lock, whatever triggers started them.
OneScrapeAtATime ==
  /\ Cardinality({t \in Tasks : pc[t] \in InLock}) <= 1
  /\ (\E t \in Tasks : pc[t] \in InLock) => locked

\* one invocation holds the lock while another one waits for it
OneScrapeAtATimeWitness ==
  \E t, u \in Tasks : pc[t] \in InLock /\ pc[u] = "waiting"

\* C2: a trigger that arrives while a scrape is in flight, or right behind
\* another trigger, is rejected: no run_scrape invocation is ever left waiting
\* for the lock, to run once the one in flight has finished.
TriggerNeverQueued == \A t \in Tasks : pc[t] \notin {"waiting", "woken"}

\* the dates of the scrape result in hand, in the order they are written
SummaryKeys == PartitionByDate(summary).keys

\* invocation t's split_and_save_by_date raised in this step
SaveFailed(t) == pc[t] = "save" /\ pc'[t] = "except"

====
